---- MODULE Spec2Model ----
(***************************************************************************)
(* State-license verifier: the Utah adapter (ut_adapter.py), the job       *)
(* runner (run_job.py), the licenses table (models.py) and the POST /run   *)
(* handler (main.py).                                                      *)
(*                                                                         *)
(* Text is a sequence of one-character strings, so that whitespace         *)
(* handling, case folding and substring search are computed, not assumed.  *)
(***************************************************************************)
EXTENDS Integers, Sequences, FiniteSets, TLC

VARIABLES
    pc,          \* position of the request followed step by step: idle / loop / open /
                 \* ... / returned / write
    providers,   \* RunRequest.providers of the run in progress
    idx,         \* 1-based position of `name` in `for name in providers`
    processed,   \* summary["processed"]
    response,    \* what POST /run answered for the last finished run
    store,       \* committed rows of the licenses table
    calls,       \* verify_ut calls started since start-up
    now,         \* dt.datetime.utcnow(), a logical clock
    called,      \* names verify_ut was called with during the run in progress
    ri,          \* 1-based position of `rec` in `for rec in results`
    existing,    \* the rows the last select matched, as they were before the update
    full_name,   \* verify_ut: its argument
    first,       \* verify_ut: first
    last,        \* verify_ut: last
    browser,     \* verify_ut: browser is not None
    ctx,         \* verify_ut: ctx is not None
    closed,      \* close() attempts made by the finally block, in order
    did_submit,  \* verify_ut: did_submit
    attempt,     \* verify_ut: scan attempts completed or begun (for attempt in range(3))
    submits,     \* submit_once() calls made by this verify_ut call
    waits,       \* wait_for_timeout() delays requested by this call, in order
    opened,      \* text of the candidate that was clicked, or None
    detail,      \* which container the detail is read from: none / popup / container
    fields,      \* the four _value_for results of this call
    results,     \* the list verify_ut returns (records not yet upserted by the runner)
    outcome,     \* how the last verify_ut call ended: none / returned / raised
    cause,       \* which handler ended the call: none / done / nomatch / timeout / error
    filled,      \* verify_ut: filled, until the polling loop is entered
    profession,  \* how the profession filter went, until submit_once(): none /
                 \* selected / typed / absent
    resubmit,    \* the resubmission this call made: none / no_candidates (the scan
                 \* before it counted n = 0) / unmatched (it counted n > 0)
    stage,       \* the call that raised into the except handlers: none / open / wait /
                 \* count / read / popup
    fn,          \* pure-function runs: which function is exercised
    arg,         \* pure-function runs: its input
    out,         \* pure-function runs: [done, val], val the result once done
    tpc,         \* other requests: position of each pool thread in run_ut_job:
                 \* idle / select / write / failed
    trec,        \* other requests: rec of each thread
    tfound       \* other requests: the rows each thread's select matched

jobvars == <<pc, providers, idx, processed, response, store, calls, now, called, ri, existing>>
callvars == <<full_name, first, last, browser, ctx, closed, did_submit, attempt,
              submits, waits, opened, detail, fields, results, outcome, cause,
              filled, profession, resubmit, stage>>
fnvars == <<fn, arg, out>>
thrvars == <<tpc, trec, tfound>>
jobvars_but_pc == <<providers, idx, processed, response, store, calls, now, called, ri,
                   existing>>
vars == <<jobvars, callvars, fnvars, thrvars>>

----------------------------------------------------------------------------
(* Bounds *)

MaxCalls == 2      \* verify_ut calls per behaviour
MaxCands == 2      \* elements the result locator yields in one scan
MaxToks == 3       \* tokens of a tokenizer input
MaxInputs == 2     \* <input> elements of a search form
MaxLabels == 2     \* <label> elements of a search form
MaxScan == 3       \* elements of one scan, when the scan is run on its own
MaxFrames == 3     \* frames of the page, the main frame included
MaxThreads == 2    \* request threads serving POST /run at the same time
MaxUpserts == 3    \* records handled in one behaviour of the concurrent runs

(* Program constants *)

PollAttempts == 3      \* for attempt in range(3)
CandidateCap == 40     \* range(min(n, 40))
SubmitDelay == 1500    \* container.wait_for_timeout(1500)
RetryDelay == 1200     \* container.wait_for_timeout(1200)

----------------------------------------------------------------------------
(* Text helpers *)

None == <<"None">>
NotCalled == [done |-> FALSE, val |-> <<>>]
Raise == <<"Raise">>

\* The whitespace characters that are not written with an escape
VT == ""       \* U+000B line tabulation
FS == ""       \* U+001C file separator
GS == ""       \* U+001D group separator
RS == ""       \* U+001E record separator
US == ""       \* U+001F unit separator
NEL == ""      \* U+0085 next line
NBSP == " "     \* U+00A0 no-break space
OGHAM == " "    \* U+1680 ogham space mark

\* The characters str.isspace() is true of: the class that \s of a str
\* pattern matches and that str.strip() removes.  (The spaces from U+2000 up,
\* which belong to the class too, cannot be written in a string here and are
\* in no text of this module.)
Space == {" ", "\t", "\n", "\r", "\f", VT, FS, GS, RS, US, NEL, NBSP, OGHAM}

IsSpace(c) == c \in Space

UpperCase == <<"A", "B", "C", "D", "E", "F", "G", "H", "I", "J", "K", "L", "M",
               "N", "O", "P", "Q", "R", "S", "T", "U", "V", "W", "X", "Y", "Z">>
LowerCase == <<"a", "b", "c", "d", "e", "f", "g", "h", "i", "j", "k", "l", "m",
               "n", "o", "p", "q", "r", "s", "t", "u", "v", "w", "x", "y", "z">>

\* str.lower() on one character
Lower(c) ==
    IF \E i \in 1..26 : UpperCase[i] = c
    THEN LowerCase[CHOOSE i \in 1..26 : UpperCase[i] = c]
    ELSE c

LowerText(s) == [i \in 1..Len(s) |-> Lower(s[i])]

\* needle in hay  (Python's `in` on str)
Contains(hay, needle) ==
    \E i \in 0..(Len(hay) - Len(needle)) :
        \A j \in 1..Len(needle) : hay[i + j] = needle[j]

RECURSIVE LStrip(_)
LStrip(s) ==
    IF s # <<>> /\ IsSpace(Head(s)) THEN LStrip(Tail(s)) ELSE s

RECURSIVE RStrip(_)
RStrip(s) ==
    IF s # <<>> /\ IsSpace(s[Len(s)]) THEN RStrip(SubSeq(s, 1, Len(s) - 1)) ELSE s

\* str.strip()
Strip(s) == RStrip(LStrip(s))

\* re.split(r"\s+", s): the pieces between maximal whitespace runs, empty
\* pieces at the ends included
RECURSIVE SplitFrom(_, _, _, _)
SplitFrom(s, i, cur, inWs) ==
    IF i > Len(s) THEN <<cur>>
    ELSE IF IsSpace(s[i])
         THEN IF inWs THEN SplitFrom(s, i + 1, cur, TRUE)
                      ELSE <<cur>> \o SplitFrom(s, i + 1, <<>>, TRUE)
         ELSE SplitFrom(s, i + 1, Append(cur, s[i]), FALSE)

ReSplitWs(s) == SplitFrom(s, 1, <<>>, FALSE)

\* sep.join(parts)
RECURSIVE Join(_, _)
Join(parts, sep) ==
    IF parts = <<>> THEN <<>>
    ELSE IF Len(parts) = 1 THEN parts[1]
    ELSE parts[1] \o sep \o Join(Tail(parts), sep)

\* re.sub(r"\s+", " ", s): every maximal whitespace run becomes one space
RECURSIVE CollapseWs(_, _)
CollapseWs(s, inWs) ==
    IF s = <<>> THEN <<>>
    ELSE IF IsSpace(Head(s))
         THEN IF inWs THEN CollapseWs(Tail(s), TRUE)
                      ELSE <<" ">> \o CollapseWs(Tail(s), TRUE)
         ELSE <<Head(s)>> \o CollapseWs(Tail(s), FALSE)

----------------------------------------------------------------------------
(* ut_adapter._tokens *)

NonEmptyParts(s) == SelectSeq(ReSplitWs(Strip(s)), LAMBDA p : p # <<>>)

tokens_first_last_swapped(name) ==
    LET parts == NonEmptyParts(name)
        n == Len(parts)
    IN  IF n = 1 THEN [raised |-> FALSE, first |-> parts[1], last |-> <<>>]
        ELSE IF n = 0 THEN [raised |-> TRUE, first |-> <<>>, last |-> <<>>]
        ELSE [raised |-> FALSE,
              first |-> parts[1],
              last |-> Join(Tail(parts), <<" ">>)]

\* parts[-1] of an empty list raises IndexError: raised = TRUE
_tokens(name) ==
    LET parts == NonEmptyParts(name)
        n == Len(parts)
    IN  IF n = 1 THEN [raised |-> FALSE, first |-> <<>>, last |-> parts[1]]
        ELSE IF n = 0 THEN [raised |-> TRUE, first |-> <<>>, last |-> <<>>]
        ELSE [raised |-> FALSE,
              first |-> Join(SubSeq(parts, 1, n - 1), <<" ">>),
              last |-> parts[n]]

(* ut_adapter._clean *)
_clean(s) == Strip(CollapseWs(s, FALSE))

----------------------------------------------------------------------------
(* ut_adapter._parse_date: datetime.strptime over four formats *)

Digit == {"0", "1", "2", "3", "4", "5", "6", "7", "8", "9"}

DigitVal(c) ==
    CASE c = "0" -> 0 [] c = "1" -> 1 [] c = "2" -> 2 [] c = "3" -> 3
      [] c = "4" -> 4 [] c = "5" -> 5 [] c = "6" -> 6 [] c = "7" -> 7
      [] c = "8" -> 8 [] c = "9" -> 9

\* str.split(sep) for a one-character separator: how strptime's regex cuts a
\* text whose directives cannot themselves match the separator
RECURSIVE SplitOn(_, _, _)
SplitOn(s, sep, cur) ==
    IF s = <<>> THEN <<cur>>
    ELSE IF Head(s) = sep THEN <<cur>> \o SplitOn(Tail(s), sep, <<>>)
    ELSE SplitOn(Tail(s), sep, Append(cur, Head(s)))

\* %m : 1[0-2]|0[1-9]|[1-9]      (-1: no match)
MatchMonth(p) ==
    IF Len(p) = 2 /\ p[1] = "1" /\ p[2] \in {"0", "1", "2"} THEN 10 + DigitVal(p[2])
    ELSE IF Len(p) = 2 /\ p[1] = "0" /\ p[2] \in Digit \ {"0"} THEN DigitVal(p[2])
    ELSE IF Len(p) = 1 /\ p[1] \in Digit \ {"0"} THEN DigitVal(p[1])
    ELSE -1

\* %d : 3[01]|[12]\d|0[1-9]|[1-9]| [1-9]
MatchDay(p) ==
    IF Len(p) = 2 /\ p[1] = "3" /\ p[2] \in {"0", "1"} THEN 30 + DigitVal(p[2])
    ELSE IF Len(p) = 2 /\ p[1] \in {"1", "2"} /\ p[2] \in Digit
         THEN 10 * DigitVal(p[1]) + DigitVal(p[2])
    ELSE IF Len(p) = 2 /\ p[1] \in {"0", " "} /\ p[2] \in Digit \ {"0"} THEN DigitVal(p[2])
    ELSE IF Len(p) = 1 /\ p[1] \in Digit \ {"0"} THEN DigitVal(p[1])
    ELSE -1

\* %Y : \d\d\d\d
MatchYear(p) ==
    IF Len(p) = 4 /\ \A i \in 1..4 : p[i] \in Digit
    THEN 1000 * DigitVal(p[1]) + 100 * DigitVal(p[2]) + 10 * DigitVal(p[3]) + DigitVal(p[4])
    ELSE -1

IsLeap(y) == (y % 4 = 0 /\ y % 100 # 0) \/ y % 400 = 0

DaysIn(y, m) ==
    IF m = 2 THEN (IF IsLeap(y) THEN 29 ELSE 28)
    ELSE IF m \in {4, 6, 9, 11} THEN 30 ELSE 31

\* datetime(y, m, d) accepts the triple (else ValueError)
ValidDate(y, m, d) ==
    /\ y \in 1..9999
    /\ m \in 1..12
    /\ d >= 1 /\ d <= DaysIn(y, m)

\* the formats of the for loop, in order: separator and whether the year leads
DateFormats ==
    << [sep |-> "/", yearFirst |-> FALSE],      \* %m/%d/%Y
       [sep |-> "-", yearFirst |-> TRUE],       \* %Y-%m-%d
       [sep |-> "-", yearFirst |-> FALSE],      \* %m-%d-%Y
       [sep |-> "/", yearFirst |-> TRUE] >>     \* %Y/%m/%d

\* datetime.strptime(s, fmt).date(), None standing for the ValueError
Strptime(s, fmt) ==
    LET parts == SplitOn(s, fmt.sep, <<>>)
        y == MatchYear(IF fmt.yearFirst THEN parts[1] ELSE parts[3])
        m == MatchMonth(IF fmt.yearFirst THEN parts[2] ELSE parts[1])
        d == MatchDay(IF fmt.yearFirst THEN parts[3] ELSE parts[2])
    IN  IF Len(parts) = 3 /\ y >= 0 /\ m >= 0 /\ d >= 0 /\ ValidDate(y, m, d)
        THEN <<y, m, d>>
        ELSE None

RECURSIVE TryFormats(_, _)
TryFormats(s, i) ==
    IF i > Len(DateFormats) THEN None
    ELSE IF Strptime(s, DateFormats[i]) # None THEN Strptime(s, DateFormats[i])
    ELSE TryFormats(s, i + 1)

_parse_date(s) == TryFormats(_clean(s), 1)

----------------------------------------------------------------------------
(* ut_adapter._value_for *)

\* One detail container, as far as one label pattern sees it: what each of the
\* three locators gives when its inner_text is read.  Raise: the locator
\* matches nothing or times out (inner_text raises); otherwise the raw text.
\* page[1]: text=/label/ -> following::*[1];  page[2]: td/th:has-text + td;
\* page[3]: dt:has-text + dd

StrategyText(reads, i) == IF reads[i] = Raise THEN <<>> ELSE _clean(reads[i])

value_for_table_first(reads) ==
    IF StrategyText(reads, 2) # <<>> THEN StrategyText(reads, 2)
    ELSE IF StrategyText(reads, 1) # <<>> THEN StrategyText(reads, 1)
    ELSE IF StrategyText(reads, 3) # <<>> THEN StrategyText(reads, 3)
    ELSE <<>>

_value_for(reads) ==
    IF StrategyText(reads, 1) # <<>> THEN StrategyText(reads, 1)
    ELSE IF StrategyText(reads, 2) # <<>> THEN StrategyText(reads, 2)
    ELSE IF StrategyText(reads, 3) # <<>> THEN StrategyText(reads, 3)
    ELSE <<>>

----------------------------------------------------------------------------
(* ut_adapter._fill_by_patterns and ut_adapter._fill_inputs                 *)
(*                                                                         *)
(* A form is the <input> elements of the container in document order and   *)
(* its <label> elements in document order.  An input carries the           *)
(* attributes the selectors look at; ro says that fill() on it raises.     *)
(* The result is the flag _fill_inputs returns and the fill() calls that   *)
(* went through, in order, each tagged with the strategy that made it.     *)

T_firstName == <<"f", "i", "r", "s", "t", "N", "a", "m", "e">>
T_lastName == <<"l", "a", "s", "t", "N", "a", "m", "e">>
T_First == <<"F", "i", "r", "s", "t">>
T_Last == <<"L", "a", "s", "t">>
T_Given == <<"G", "i", "v", "e", "n">>
T_Family == <<"F", "a", "m", "i", "l", "y">>
T_FirstName == <<"F", "i", "r", "s", "t", " ", "N", "a", "m", "e">>
T_LastName == <<"L", "a", "s", "t", " ", "N", "a", "m", "e">>
T_first == <<"f", "i", "r", "s", "t">>
T_last == <<"l", "a", "s", "t">>
T_date == <<"d", "a", "t", "e">>
T_mm == <<"m", "m">>
T_text == <<"t", "e", "x", "t">>

Sel(a, o, v) == [attr |-> a, op |-> o, val |-> v]

first_patterns ==
    << Sel("name", "eq", T_firstName),
       Sel("id", "eq", T_firstName),
       Sel("placeholder", "has_i", T_First),
       Sel("aria-label", "has_i", T_First),
       Sel("aria-label", "has_i", T_Given),
       Sel("aria-label", "eq", T_FirstName),
       Sel("placeholder", "eq", T_FirstName) >>

last_patterns ==
    << Sel("name", "eq", T_lastName),
       Sel("id", "eq", T_lastName),
       Sel("placeholder", "has_i", T_Last),
       Sel("aria-label", "has_i", T_Last),
       Sel("aria-label", "has_i", T_Family),
       Sel("aria-label", "eq", T_LastName),
       Sel("placeholder", "eq", T_LastName) >>

Attr(el, a) ==
    CASE a = "name" -> el.name
      [] a = "id" -> el.id
      [] a = "placeholder" -> el.ph
      [] a = "aria-label" -> el.aria
      [] a = "type" -> el.type

\* input[attr='val'] and input[attr*='val' i]
SelMatches(el, css) ==
    IF css.op = "eq" THEN Attr(el, css.attr) = css.val
    ELSE Contains(LowerText(Attr(el, css.attr)), LowerText(css.val))

\* the elements container.locator(css) resolves to
Located(inputs, css) == { i \in 1..Len(inputs) : SelMatches(inputs[i], css) }

MinOf(S) == CHOOSE x \in S : \A y \in S : x <= y

NoWrites == [ok |-> FALSE, writes |-> <<>>]

RECURSIVE _fill_by_patterns(_, _, _, _)
_fill_by_patterns(inputs, patterns, value, by) ==
    IF patterns = <<>> THEN NoWrites
    ELSE LET hit == Located(inputs, Head(patterns))
         IN  IF hit # {} /\ ~inputs[MinOf(hit)].ro
             THEN [ok |-> TRUE,
                   writes |-> << [by |-> by, el |-> MinOf(hit), value |-> value] >>]
             ELSE _fill_by_patterns(inputs, Tail(patterns), value, by)

WordChar(c) == Lower(c) \in ({LowerCase[i] : i \in 1..26} \cup {"_"}
                             \cup {"0", "1", "2", "3", "4", "5", "6", "7", "8", "9"})

\* re.search(r"\bword\b", txt, re.I), word made of word characters
WordIn(txt, word) ==
    \E i \in 0..(Len(txt) - Len(word)) :
        /\ \A j \in 1..Len(word) : Lower(txt[i + j]) = Lower(word[j])
        /\ i = 0 \/ ~WordChar(txt[i])
        /\ i + Len(word) = Len(txt) \/ ~WordChar(txt[i + Len(word) + 1])

\* container.locator("input#target"): count() and, when it is not zero, a
\* fill() that raises unless exactly one fillable element answers
TargetFill(inputs, target, value, st) ==
    LET hit == { i \in 1..Len(inputs) : inputs[i].id = target }
    IN  IF hit = {} THEN st
        ELSE IF Cardinality(hit) > 1 \/ inputs[MinOf(hit)].ro
             THEN [st EXCEPT !.raised = TRUE]
             ELSE [st EXCEPT !.filled = TRUE,
                             !.writes = Append(@, [by |-> "label", el |-> MinOf(hit),
                                                   value |-> value])]

\* the loop over the labels, left at the first exception
RECURSIVE LabelLoop(_, _, _, _, _)
LabelLoop(inputs, labels, fst, lst, st) ==
    IF labels = <<>> \/ st.raised THEN st
    ELSE LET txt == _clean(Head(labels).text)
             target == _clean(Head(labels).for)
             s1 == IF fst # <<>> /\ WordIn(txt, T_first)
                   THEN TargetFill(inputs, target, fst, st) ELSE st
             s2 == IF s1.raised THEN s1
                   ELSE IF lst # <<>> /\ WordIn(txt, T_last)
                        THEN TargetFill(inputs, target, lst, s1) ELSE s1
         IN  IF txt = <<>> \/ target = <<>>
             THEN LabelLoop(inputs, Tail(labels), fst, lst, st)
             ELSE LabelLoop(inputs, Tail(labels), fst, lst, s2)

DateLike(el) ==
    \/ Contains(LowerText(el.ph), T_date)
    \/ Contains(LowerText(el.aria), T_date)
    \/ Contains(LowerText(el.ph), T_mm)

\* the text inputs the fallback keeps, in document order
RECURSIVE TextInputs(_, _)
TextInputs(inputs, i) ==
    IF i > Len(inputs) THEN <<>>
    ELSE IF inputs[i].type = T_text /\ ~DateLike(inputs[i])
         THEN <<i>> \o TextInputs(inputs, i + 1)
         ELSE TextInputs(inputs, i + 1)

Fallback(inputs, fst, lst, st) ==
    LET ti == TextInputs(inputs, 1)
        w(k, v) == [by |-> "fallback", el |-> ti[k], value |-> v]
    IN  IF ti = <<>> THEN st
        ELSE IF fst # <<>> /\ lst # <<>> /\ Len(ti) >= 2
             THEN IF inputs[ti[1]].ro THEN st
                  ELSE IF inputs[ti[2]].ro
                       THEN [st EXCEPT !.writes = Append(@, w(1, fst))]
                       ELSE [st EXCEPT !.filled = TRUE,
                                       !.writes = @ \o <<w(1, fst), w(2, lst)>>]
             ELSE IF inputs[ti[1]].ro THEN st
                  ELSE [st EXCEPT !.filled = TRUE,
                                  !.writes = Append(@, w(1, IF lst # <<>> THEN lst ELSE fst))]

_fill_inputs(form, fst, lst) ==
    LET p1 == IF fst # <<>>
              THEN _fill_by_patterns(form.inputs, first_patterns, fst, "pattern")
              ELSE NoWrites
        p2 == IF lst # <<>>
              THEN _fill_by_patterns(form.inputs, last_patterns, lst, "pattern")
              ELSE NoWrites
        s0 == [filled |-> p1.ok \/ p2.ok, writes |-> p1.writes \o p2.writes,
               raised |-> FALSE]
        s1 == [LabelLoop(form.inputs, form.labels, fst, lst, s0) EXCEPT !.raised = FALSE]
        s2 == IF ~s1.filled /\ (fst # <<>> \/ lst # <<>>)
              THEN Fallback(form.inputs, fst, lst, s1) ELSE s1
    IN  [filled |-> s2.filled, writes |-> s2.writes]

----------------------------------------------------------------------------
(* ut_adapter._find_search_frame                                           *)
(*                                                                         *)
(* page.frames is the main frame followed by the child frames.  For each   *)
(* frame, tab is what the "Name Search" text test gives and inp what the   *)
(* lastName input test gives: yes (count() is not zero), no, or raise.     *)

frame_satisfies_one_try(f) == f.tab = "yes" \/ (f.tab = "no" /\ f.inp = "yes")

\* the two tests of one frame, each in its own try
FrameSatisfies(f) == f.tab = "yes" \/ f.inp = "yes"

RECURSIVE FindFrom(_, _)
FindFrom(frames, i) ==
    IF i > Len(frames) THEN [kind |-> "page", at |-> 0]
    ELSE IF FrameSatisfies(frames[i]) THEN [kind |-> "frame", at |-> i]
    ELSE FindFrom(frames, i + 1)

_find_search_frame(frames) == FindFrom(frames, 1)

----------------------------------------------------------------------------
(* Inputs *)

\* provider names a run may be given
Names == { <<>>, <<" ", "\n">>, <<"b">>, <<"a", "\n", "b">> }

\* RunRequest.providers: the lists of at most n names
ProviderLists(n) == UNION { [1..k -> Names] : k \in 0..n }

FaultKinds == {"timeout", "error"}     \* PWTimeout, any other Exception

\* what candidates.nth(i).inner_text() gives: Raise, or the element's raw text
CandTexts == { <<"\n", " ">>, <<"A", "\n", "B">>, <<"\t", "B", " ", "\n", "C">> }
CandReads == CandTexts \cup {Raise}
ScanInputs == UNION { [1..k -> CandReads] : k \in 0..MaxCands }

\* the text of the sentinel of line 297, which a page may read too
UNKNOWN == <<"U", "N", "K", "N", "O", "W", "N">>
LicA == <<"7", "-", "1">>
LicB == <<"9">>
Active == <<"A", "c", "t", "i", "v", "e">>
Expired == <<"E", "x", "p", "i", "r", "e", "d">>
Date1 == <<"0", "5", "/", "0", "1", "/", "2", "0", "1", "5">>
Date2 == <<"2", "0", "2", "6", "-", "0", "1", "-", "3", "1">>
Date3 == <<"2", "-", "2", "9", "-", "2", "0", "2", "4">>
BadDay == <<"0", "2", "/", "3", "0", "/", "2", "0", "1", "5">>
NotADate == <<"N", "/", "A">>
NoRead == <<Raise, Raise, Raise>>

\* detail containers: for each field's label pattern, what the three locators read
DetailPages ==
    { \* every field under its label, raw text padded
      [lic |-> <<LicA, Raise, Raise>>,
       status |-> <<<<"\n", " ">> \o Active \o <<"\r", "\n">>, Raise, Raise>>,
       issue |-> <<Date1 \o <<"\n">>, Raise, Raise>>,
       expiry |-> <<Raise, <<NBSP>> \o Date2 \o <<" ">>, Raise>>],
      \* same license, other status, dates not given as dates
      [lic |-> <<LicA, LicB, Raise>>,
       status |-> <<<<>>, Expired, Active>>,
       issue |-> <<Raise, Raise, Date3>>,
       expiry |-> <<NotADate, Date2, Raise>>],
      \* nothing recognisable on the page
      [lic |-> NoRead,
       status |-> << <<"\n", "\t">>, Raise, <<>> >>,
       issue |-> NoRead,
       expiry |-> << <<>>, <<>>, <<>> >>],
      \* no license number, the rest present
      [lic |-> << <<NBSP>>, Raise, Raise >>,
       status |-> <<Raise, Raise, Active>>,
       issue |-> <<BadDay, Raise, Raise>>,
       expiry |-> <<Date2, Raise, Raise>>],
      \* license number only in a table cell, no status
      [lic |-> <<Raise, LicB, LicA>>,
       status |-> NoRead,
       issue |-> <<Date1, Raise, Raise>>,
       expiry |-> NoRead],
      \* the license number field reads the word the code uses as sentinel
      [lic |-> << <<" ">> \o UNKNOWN \o <<"\n">>, Raise, Raise >>,
       status |-> <<Raise, Raise, Active>>,
       issue |-> <<BadDay, Raise, Raise>>,
       expiry |-> <<Date2, Raise, Raise>>] }

\* search forms: the inputs and labels a container can hold
El(nm, id, ph, aria, type, ro) ==
    [name |-> nm, id |-> id, ph |-> ph, aria |-> aria, type |-> type, ro |-> ro]

InputKinds ==
    { El(T_firstName, <<>>, <<>>, <<>>, T_text, FALSE),
      El(T_lastName, <<>>, <<>>, <<>>, T_text, FALSE),
      El(<<>>, <<"x">>, T_FirstName, <<>>, T_text, FALSE),
      El(<<>>, <<"x">>, <<>>, <<>>, T_text, FALSE),
      El(<<>>, <<"y">>, <<>>, <<"L", "A", "S", "T">>, <<>>, TRUE),
      El(<<>>, <<>>, <<"M", "M", "/", "D", "D">>, <<>>, T_text, FALSE) }

Lab(text, for) == [text |-> text, for |-> for]

LabelKinds ==
    { Lab(T_FirstName \o <<":">>, <<"x">>),
      Lab(<<"\n">> \o T_Last \o <<"\n">>, <<"x">>),
      Lab(T_First \o <<"/">> \o T_last, <<" ", "y", "\n">>),
      Lab(T_First \o <<"l", "y">>, <<"x">>),
      Lab(<<"\n", " ">>, <<"x">>) }

SeqsUpTo(S, n) == UNION { [1..k -> S] : k \in 0..n }

Forms == [inputs : SeqsUpTo(InputKinds, MaxInputs), labels : SeqsUpTo(LabelKinds, MaxLabels)]

----------------------------------------------------------------------------
(* verify_ut: the pieces that compute *)

UT_URL == "https://secure.utah.gov/llv/search/index.html#"

Min(a, b) == IF a < b THEN a ELSE b

\* the for i in range(min(n, 40)) loop over the candidates of one scan:
\* the first element whose read raises ends the call, the first whose cleaned
\* text holds both tokens is clicked, empty texts are skipped
name_matches_last_only(txt, fst, lst) ==
    IF lst # <<>> THEN Contains(LowerText(txt), LowerText(lst)) ELSE TRUE

\* ok_last and ok_first
NameMatches(txt, fst, lst) ==
    LET ok_last == IF lst # <<>> THEN Contains(LowerText(txt), LowerText(lst)) ELSE TRUE
        ok_first == IF fst # <<>> THEN Contains(LowerText(txt), LowerText(fst)) ELSE TRUE
    IN  ok_last /\ ok_first

RECURSIVE ScanFrom(_, _, _, _)
ScanFrom(cands, i, fst, lst) ==
    IF i > Min(Len(cands), CandidateCap) THEN [kind |-> "nomatch", txt |-> None, at |-> 0]
    ELSE IF cands[i] = Raise THEN [kind |-> "raise", txt |-> None, at |-> i]
    ELSE LET txt == _clean(cands[i])
         IN  IF txt = <<>> THEN ScanFrom(cands, i + 1, fst, lst)
             ELSE IF NameMatches(txt, fst, lst) THEN [kind |-> "match", txt |-> txt, at |-> i]
             ELSE ScanFrom(cands, i + 1, fst, lst)

ScanResult(cands, fst, lst) == ScanFrom(cands, 1, fst, lst)

\* the four _value_for calls on the detail container
ReadFields(page) ==
    [lic |-> _value_for(page.lic),
     status |-> _value_for(page.status),
     issue |-> _value_for(page.issue),
     expiry |-> _value_for(page.expiry)]

build_record_null_license(name, f, t) ==
    [full_name |-> name,
     state |-> "UT",
     license_number |-> IF f.lic # <<>> THEN f.lic ELSE None,
     status |-> IF f.status # <<>> THEN f.status ELSE None,
     issue_date |-> _parse_date(f.issue),
     expiry_date |-> _parse_date(f.expiry),
     source_uri |-> UT_URL,
     last_verified_at |-> t]

\* record = {...}
BuildRecord(name, f, t) ==
    [full_name |-> name,
     state |-> "UT",
     license_number |-> IF f.lic # <<>> THEN f.lic ELSE UNKNOWN,
     status |-> IF f.status # <<>> THEN f.status ELSE None,
     issue_date |-> _parse_date(f.issue),
     expiry_date |-> _parse_date(f.expiry),
     source_uri |-> UT_URL,
     last_verified_at |-> t]

finally_close_one_try(hasBrowser, hasCtx, ctxFails, browserFails) ==
    IF hasCtx /\ ctxFails THEN << [res |-> "ctx", ok |-> FALSE] >>
    ELSE (IF hasCtx THEN << [res |-> "ctx", ok |-> TRUE] >> ELSE <<>>)
         \o (IF hasBrowser THEN << [res |-> "browser", ok |-> ~browserFails] >> ELSE <<>>)

\* the finally block: the close() calls it makes, in order, each in its own try
FinallyClose(hasBrowser, hasCtx, ctxFails, browserFails) ==
    (IF hasCtx THEN << [res |-> "ctx", ok |-> ~ctxFails] >> ELSE <<>>)
    \o (IF hasBrowser THEN << [res |-> "browser", ok |-> ~browserFails] >> ELSE <<>>)

----------------------------------------------------------------------------
(* run_job.run_ut_job: the upsert of one record *)

Matching(rows, rec) ==
    { r \in rows : r.state = rec.state /\ r.license_number = rec.license_number }

NextId(rows) ==
    IF rows = {} THEN 1
    ELSE 1 + (CHOOSE m \in {r.id : r \in rows} : \A r \in rows : r.id <= m)

\* License(**rec)
NewRow(rows, rec) ==
    [id |-> NextId(rows),
     full_name |-> rec.full_name,
     state |-> rec.state,
     license_number |-> rec.license_number,
     status |-> rec.status,
     issue_date |-> rec.issue_date,
     expiry_date |-> rec.expiry_date,
     source_uri |-> rec.source_uri,
     last_verified_at |-> rec.last_verified_at]

\* existing.<field> = rec[...] on the object the select loaded, flushed by the
\* commit as UPDATE ... WHERE id = existing.id with the columns whose new
\* value differs from the loaded one.  rows is the table at the time of the
\* commit, which another request may have changed since the select.
UpdatedRows(rows, loaded, rec) ==
    { IF row.id = loaded.id
      THEN [row EXCEPT
              !.full_name = IF rec.full_name # loaded.full_name THEN rec.full_name ELSE @,
              !.status = IF rec.status # loaded.status THEN rec.status ELSE @,
              !.issue_date = IF rec.issue_date # loaded.issue_date THEN rec.issue_date ELSE @,
              !.expiry_date = IF rec.expiry_date # loaded.expiry_date THEN rec.expiry_date ELSE @,
              !.source_uri = IF rec.source_uri # loaded.source_uri THEN rec.source_uri ELSE @]
      ELSE row : row \in rows }

write_always_insert(rows, found, rec) == rows \cup {NewRow(rows, rec)}

\* if existing: update its fields, else session.add(License(**rec)).
\* found is what the select matched (at most one row, or the select raised).
WriteRows(rows, found, rec) ==
    IF found = {} THEN rows \cup {NewRow(rows, rec)}
    ELSE UpdatedRows(rows, CHOOSE r \in found : TRUE, rec)

commit_missing(table, session_rows) == table

\* session.commit() after each record: what the session holds becomes what the
\* table holds.  Without it the change would go when the session is closed.
SessionCommit(table, session_rows) == session_rows

----------------------------------------------------------------------------
(* State *)

NoFields == [lic |-> None, status |-> None, issue |-> None, expiry |-> None]
NoResponse == [status |-> 0, processed |-> 0]

\* verify_ut's locals before the call starts
CallReset ==
    /\ full_name = <<>> /\ first = <<>> /\ last = <<>>
    /\ browser = FALSE /\ ctx = FALSE /\ closed = <<>>
    /\ did_submit = FALSE /\ attempt = 0 /\ submits = 0 /\ waits = <<>>
    /\ opened = None /\ detail = "none" /\ fields = NoFields
    /\ results = <<>> /\ outcome = "none" /\ cause = "none"
    /\ filled = FALSE /\ profession = "none" /\ resubmit = "none" /\ stage = "none"

\* verify_ut's frame is dropped
CallCleared ==
    /\ full_name' = <<>> /\ first' = <<>> /\ last' = <<>>
    /\ browser' = FALSE /\ ctx' = FALSE /\ closed' = <<>>
    /\ did_submit' = FALSE /\ attempt' = 0 /\ submits' = 0 /\ waits' = <<>>
    /\ opened' = None /\ detail' = "none" /\ fields' = NoFields
    /\ results' = <<>> /\ outcome' = "none" /\ cause' = "none"
    /\ filled' = FALSE /\ profession' = "none" /\ resubmit' = "none" /\ stage' = "none"

JobInit ==
    /\ pc = "idle" /\ providers = <<>> /\ idx = 1 /\ processed = 0
    /\ response = NoResponse /\ store = {} /\ calls = 0 /\ now = 1
    /\ called = <<>> /\ ri = 1 /\ existing = {}

\* no request thread of the concurrent runs is at work
Threads == 1..MaxThreads

ThreadsIdle ==
    /\ tpc = [t \in Threads |-> "idle"]
    /\ trec = [t \in Threads |-> None]
    /\ tfound = [t \in Threads |-> {}]

Init ==
    /\ JobInit
    /\ CallReset
    /\ ThreadsIdle
    /\ fn = "none" /\ arg = <<>> /\ out = NotCalled

----------------------------------------------------------------------------
(* main.run / run_job.run_ut_job *)

\* POST /run: run_ut_job(req.providers) opens its session and enters the loop.
\* Nothing of an earlier request's verify_ut calls is left.
Run ==
    /\ pc = "idle"
    /\ Cardinality({ t \in Threads : tpc[t] \in {"select", "write"} }) < MaxThreads
    /\ \E ps \in ProviderLists(MaxCalls - calls) : providers' = ps
    /\ idx' = 1 /\ processed' = 0 /\ called' = <<>>
    /\ ri' = 1 /\ existing' = {}
    /\ response' = NoResponse
    /\ pc' = "loop"
    /\ CallCleared
    /\ UNCHANGED <<store, calls, now, fnvars, thrvars>>

\* the loop is over: return summary; run() answers {"ok": True, "summary": ...}
JobReturn ==
    /\ pc = "loop" /\ idx > Len(providers)
    /\ response' = [status |-> 200, processed |-> processed]
    /\ pc' = "idle"
    /\ UNCHANGED <<providers, idx, processed, store, calls, now, called, ri, existing,
                   callvars, fnvars, thrvars>>

\* results = verify_ut(name), up to the entry of the with block:
\* first, last = _tokens(full_name), then sync_playwright().__enter__().
\* Both stand outside verify_ut's try: the IndexError of _tokens, and whatever
\* starting Playwright raises, leave verify_ut, leave run_ut_job through its
\* finally (session.close()) and are turned into HTTP 500 by run().
VerifyStart ==
    /\ pc = "loop" /\ idx <= Len(providers)
    /\ LET name == providers[idx]
           t == _tokens(name)
       IN  /\ calls' = calls + 1
           /\ called' = Append(called, name)
           /\ full_name' = name
           /\ IF t.raised
              THEN /\ outcome' = "raised"
                   /\ response' = [status |-> 500, processed |-> 0]
                   /\ pc' = "idle"
                   /\ UNCHANGED <<first, last>>
              ELSE /\ first' = t.first /\ last' = t.last
                   /\ \E started \in BOOLEAN :
                        IF started
                        THEN /\ outcome' = "none"
                             /\ pc' = "open"
                             /\ UNCHANGED response
                        ELSE /\ outcome' = "raised"
                             /\ response' = [status |-> 500, processed |-> 0]
                             /\ pc' = "idle"
    /\ UNCHANGED <<providers, idx, processed, store, now, ri, existing, browser, ctx,
                   closed, did_submit, attempt, submits, waits, opened, detail,
                   fields, results, cause, filled, profession, resubmit, stage, fnvars,
                   thrvars>>

\* for rec in results: existing = session.execute(select ...)
\* .scalar_one_or_none(), which raises MultipleResultsFound when more than one
\* row matches
Select ==
    /\ pc = "returned" /\ ri <= Len(results)
    /\ existing' = Matching(store, results[ri])
    /\ IF Cardinality(Matching(store, results[ri])) > 1
       THEN /\ response' = [status |-> 500, processed |-> 0]
            /\ pc' = "idle"
       ELSE /\ pc' = "write"
            /\ UNCHANGED response
    /\ UNCHANGED <<providers, idx, processed, store, calls, now, called, ri, callvars,
                   fnvars, thrvars>>

\* update or add, session.commit(), summary["processed"] += 1.  The table is
\* the one found at the commit: requests served by other threads may have
\* committed since the select.
Write ==
    /\ pc = "write"
    /\ store' = SessionCommit(store, WriteRows(store, existing, results[ri]))
    /\ processed' = processed + 1
    /\ ri' = ri + 1
    /\ pc' = "returned"
    /\ UNCHANGED <<providers, idx, response, calls, now, called, existing, callvars,
                   fnvars, thrvars>>

\* results is exhausted: next name; verify_ut's frame is gone
NextName ==
    /\ pc = "returned" /\ ri > Len(results)
    /\ idx' = idx + 1
    /\ ri' = 1 /\ existing' = {}
    /\ pc' = "loop"
    /\ CallCleared
    /\ UNCHANGED <<providers, processed, response, store, calls, now, called, fnvars, thrvars>>

----------------------------------------------------------------------------
(* ut_adapter.verify_ut, inside the try *)

\* launch, new_context, new_page, set_default_timeout, goto: the first one
\* that raises is caught by except PWTimeout / except Exception
OpenSession ==
    /\ pc = "open"
    /\ \E o \in {"launch", "new_context", "new_page", "goto", "ok"} :
        /\ browser' = (o # "launch")
        /\ ctx' = (o \notin {"launch", "new_context"})
        /\ IF o = "ok"
           THEN pc' = "prepare" /\ UNCHANGED <<cause, stage>>
           ELSE pc' = "finally" /\ stage' = "open" /\ \E k \in FaultKinds : cause' = k
    /\ UNCHANGED <<jobvars_but_pc, full_name, first, last, closed, did_submit, attempt,
                   submits, waits, opened, detail, fields, results, outcome, filled,
                   profession, resubmit, fnvars, thrvars>>

\* the forms the search page is met with
SearchForms == [inputs : SeqsUpTo(InputKinds, 1), labels : {<<>>}]

\* profession filter: a <select> that takes the option, else a text field that
\* takes the text, else nothing (each failure swallowed)
ProfessionOutcomes == {"selected", "typed", "absent"}

submit_only_when_filled(f) == f

\* what stands between filled = _fill_inputs(...) and submit_once(): a warning
\* is printed when filled is False, and the code goes on either way
GoesOnToSubmit(f) == TRUE

\* what stands between did_submit = submit_once() and the polling loop
GoesOnToPoll(sent) == TRUE

\* cookie banner, _find_search_frame, tab click, _log_inputs, _fill_inputs,
\* profession: each swallows its own failures
Prepare ==
    /\ pc = "prepare"
    /\ \E form \in SearchForms, prof \in ProfessionOutcomes :
        LET f == _fill_inputs(form, first, last).filled
        IN  /\ filled' = f
            /\ IF GoesOnToSubmit(f)
               THEN profession' = prof /\ pc' = "submit" /\ UNCHANGED cause
               ELSE pc' = "finally" /\ cause' = "nomatch" /\ UNCHANGED profession
    /\ UNCHANGED <<jobvars_but_pc, full_name, first, last, browser, ctx, closed,
                   did_submit, attempt, submits, waits, opened, detail, fields,
                   results, outcome, resubmit, stage, fnvars, thrvars>>

\* did_submit = submit_once() (button click, else Enter, else False), then
\* wait_for_timeout(1500), which is not guarded.  The profession filter leaves
\* nothing behind in the program.
Submit ==
    /\ pc = "submit"
    /\ \E sent \in BOOLEAN, w \in {"ok"} \cup FaultKinds :
        /\ did_submit' = sent
        /\ submits' = submits + 1
        /\ IF GoesOnToPoll(sent)
           THEN /\ waits' = Append(waits, SubmitDelay)
                /\ IF w = "ok"
                   THEN pc' = "scan" /\ UNCHANGED <<cause, stage>>
                   ELSE pc' = "finally" /\ cause' = w /\ stage' = "wait"
           ELSE pc' = "finally" /\ cause' = "nomatch" /\ UNCHANGED <<waits, stage>>
    /\ profession' = "none"
    /\ UNCHANGED <<jobvars_but_pc, full_name, first, last, browser, ctx, closed,
                   attempt, opened, detail, fields, results, outcome, resubmit, filled,
                   fnvars, thrvars>>

loop_continues_one_more(a) == a <= PollAttempts

\* whether the for loop runs another iteration
LoopContinues(a) == a < PollAttempts

\* one iteration of for attempt in range(3): count the candidates, read them
\* in order; on no match log a snippet, wait 1200 ms, resubmit when this was
\* the first attempt and submit_once() had returned False; after the last
\* iteration return [].  The warning before submit_once() was the last reader
\* of filled: the loop goes on without it.
Scan ==
    /\ pc = "scan" /\ LoopContinues(attempt)
    /\ attempt' = attempt + 1
    /\ \E cands \in ScanInputs \cup {Raise} :
        LET r == IF cands = Raise THEN [kind |-> "raise", txt |-> None, at |-> 0]
                 ELSE ScanResult(cands, first, last)
        IN  IF r.kind = "raise"
            THEN \* candidates.count() or candidates.nth(i).inner_text() raised
                 /\ pc' = "finally"
                 /\ stage' = IF cands = Raise THEN "count" ELSE "read"
                 /\ \E k \in FaultKinds : cause' = k
                 /\ UNCHANGED <<opened, waits, submits, resubmit>>
            ELSE IF r.kind = "match"
            THEN /\ opened' = r.txt
                 /\ pc' = "click"
                 /\ UNCHANGED <<cause, stage, waits, submits, resubmit>>
            ELSE /\ waits' = Append(waits, RetryDelay)
                 /\ UNCHANGED opened
                 /\ \E w \in {"ok"} \cup FaultKinds :
                     IF w # "ok"
                     THEN /\ pc' = "finally" /\ cause' = w /\ stage' = "wait"
                          /\ UNCHANGED <<submits, resubmit>>
                     ELSE /\ IF attempt = 0 /\ ~did_submit
                             THEN /\ submits' = submits + 1
                                  /\ resubmit' = IF Len(cands) = 0 THEN "no_candidates"
                                                 ELSE "unmatched"
                             ELSE UNCHANGED <<submits, resubmit>>
                          /\ UNCHANGED stage
                          /\ IF LoopContinues(attempt + 1)
                             THEN pc' = "scan" /\ UNCHANGED cause
                             ELSE pc' = "finally" /\ cause' = "nomatch"
    /\ filled' = FALSE
    /\ UNCHANGED <<jobvars_but_pc, full_name, first, last, browser, ctx, closed,
                   did_submit, detail, fields, results, outcome, profession,
                   fnvars, thrvars>>

\* with page.expect_popup(): click (its failure swallowed).  Leaving the with
\* block waits for the popup: it raises when none arrives.  maybe_popup.value
\* gives the popup, and the code reads the container when that raises.
Click ==
    /\ pc = "click"
    /\ \E p \in {"popup", "value_raises", "exit_timeout", "exit_error"} :
        CASE p = "popup" ->
                detail' = "popup" /\ pc' = "extract" /\ UNCHANGED <<cause, stage>>
          [] p = "value_raises" ->
                detail' = "container" /\ pc' = "extract" /\ UNCHANGED <<cause, stage>>
          [] p = "exit_timeout" ->
                pc' = "finally" /\ cause' = "timeout" /\ stage' = "popup" /\ UNCHANGED detail
          [] p = "exit_error" ->
                pc' = "finally" /\ cause' = "error" /\ stage' = "popup" /\ UNCHANGED detail
    /\ UNCHANGED <<jobvars_but_pc, full_name, first, last, browser, ctx, closed,
                   did_submit, attempt, submits, waits, opened, fields, results,
                   outcome, filled, profession, resubmit, fnvars, thrvars>>

\* the four _value_for calls, the record, results.append(record); return results
Extract ==
    /\ pc = "extract"
    /\ \E page \in DetailPages :
        /\ fields' = ReadFields(page)
        /\ results' = << BuildRecord(full_name, ReadFields(page), now) >>
    /\ now' = now + 1
    /\ cause' = "done"
    /\ pc' = "finally"
    /\ UNCHANGED <<providers, idx, processed, response, store, calls, called, ri,
                   existing, full_name, first, last, browser, ctx, closed,
                   did_submit, attempt, submits, waits, opened, detail, outcome,
                   filled, profession, resubmit, stage, fnvars, thrvars>>

\* finally: ctx.close() and browser.close(), each in its own try; then the
\* with block is left, sync_playwright().__exit__() stopping Playwright, and
\* the list is returned.  __exit__ is under no try: what it raises replaces the
\* return, leaves run_ut_job and is turned into HTTP 500 by run().
\* Either way verify_ut's frame is left: of the call remain its argument and
\* name tokens, what it had acquired and closed, and how it ended.
Finally ==
    /\ pc = "finally"
    /\ \E ctxFails \in (IF ctx THEN BOOLEAN ELSE {FALSE}),
          browserFails \in (IF browser THEN BOOLEAN ELSE {FALSE}) :
        closed' = FinallyClose(browser, ctx, ctxFails, browserFails)
    /\ \E stopped \in BOOLEAN :
        IF stopped
        THEN /\ outcome' = "returned"
             /\ pc' = "returned"
             /\ UNCHANGED response
        ELSE /\ outcome' = "raised"
             /\ response' = [status |-> 500, processed |-> 0]
             /\ pc' = "idle"
    /\ did_submit' = FALSE /\ attempt' = 0 /\ submits' = 0 /\ waits' = <<>>
    /\ opened' = None /\ detail' = "none" /\ fields' = NoFields
    /\ filled' = FALSE /\ profession' = "none" /\ resubmit' = "none" /\ stage' = "none"
    /\ UNCHANGED <<providers, idx, processed, store, calls, now, called, ri, existing,
                   full_name, first, last, browser, ctx, results, cause, fnvars,
                   thrvars>>

\* the steps of one request
NextRequest ==
    \/ Run
    \/ VerifyStart
    \/ OpenSession
    \/ Prepare
    \/ Submit
    \/ Scan
    \/ Click
    \/ Extract
    \/ Finally
    \/ Select
    \/ Write
    \/ NextName
    \/ JobReturn

----------------------------------------------------------------------------------------------------------------------------------------
(* Other POST /run requests.  run() is a plain def, so each request runs   *)
(* run_ut_job in a thread of the server's pool, with its own session; the  *)
(* select, and the add or update with its commit, are separate statements  *)
(* on the database, and the table has no unique constraint on (state,      *)
(* license_number).  The request followed step by step above is one of the *)
(* requests; of the others only what touches the table is followed.        *)

\* the records verify_ut returns to the other requests: the record of every
\* detail page, those stored under the sentinel "UNKNOWN" included
ConcRecords ==
    { BuildRecord(<<"b">>, ReadFields(page), 1) : page \in DetailPages }

\* requests at work: the one followed step by step, and the pool threads
\* between their verify_ut and their commit
AtWork ==
    (IF pc = "idle" THEN 0 ELSE 1)
    + Cardinality({ t \in Threads : tpc[t] \in {"select", "write"} })

\* verify_ut calls the request followed step by step has still to make
Pending == IF pc = "idle" THEN 0 ELSE Len(providers) - Len(called)

\* results = verify_ut(name) gave one record; for rec in results.
\* The request is served by the first idle thread, while fewer than
\* MaxThreads requests are at work and the behaviour has calls left.
TakeRecord(t, cap) ==
    /\ tpc[t] = "idle" /\ \A u \in 1..(t - 1) : tpc[u] # "idle"
    /\ AtWork < MaxThreads
    /\ calls + Pending < cap
    /\ calls' = calls + 1
    /\ \E rec \in ConcRecords : trec' = [trec EXCEPT ![t] = rec]
    /\ tpc' = [tpc EXCEPT ![t] = "select"]
    /\ UNCHANGED <<pc, providers, idx, processed, response, store, now, called, ri,
                   existing, callvars, fnvars, tfound>>

\* a request served next to the one followed step by step
OtherVerify(t) == TakeRecord(t, MaxCalls)

\* a request of the runs that hold pool threads only
ConcVerify(t) == TakeRecord(t, MaxUpserts)

\* existing = session.execute(select ...).scalar_one_or_none(), which raises
\* MultipleResultsFound when more than one row matches
ConcSelect(t) ==
    /\ tpc[t] = "select"
    /\ LET found == Matching(store, trec[t])
       IN  IF Cardinality(found) > 1
           THEN tpc' = [tpc EXCEPT ![t] = "failed"] /\ UNCHANGED tfound
           ELSE /\ tpc' = [tpc EXCEPT ![t] = "write"]
                /\ tfound' = [tfound EXCEPT ![t] = found]
    /\ UNCHANGED <<jobvars, callvars, fnvars, trec>>

\* if existing: update its fields, else session.add(License(**rec)); commit.
\* The request is over and its thread is idle again.
ConcWrite(t) ==
    /\ tpc[t] = "write"
    /\ store' = SessionCommit(store, WriteRows(store, tfound[t], trec[t]))
    /\ tpc' = [tpc EXCEPT ![t] = "idle"]
    /\ trec' = [trec EXCEPT ![t] = None]
    /\ tfound' = [tfound EXCEPT ![t] = {}]
    /\ UNCHANGED <<pc, providers, idx, processed, response, calls, now, called, ri,
                   existing, callvars, fnvars>>

\* the requests served next to the one followed step by step
NextOther == \E t \in Threads : OtherVerify(t) \/ ConcSelect(t) \/ ConcWrite(t)

Next == NextRequest \/ NextOther

Spec == Init /\ [][Next]_vars

\* POST /run requests served one after the other: no other request is at
\* work while one is
SpecSeq == Init /\ [][NextRequest]_vars

\* POST /run requests served at the same time, each followed from the record
\* its verify_ut returned
NextConc == \E t \in Threads : ConcVerify(t) \/ ConcSelect(t) \/ ConcWrite(t)

SpecConc == Init /\ [][NextConc]_vars

----------------------------------------------------------------------------
(* The pure functions on their own: _tokens and _value_for applied to inputs *)

TokenSet == { <<"a">>, <<"B", "c">> }
\* whitespace around the name
Pads0 == { <<>>, <<" ">>, <<"\t", "\r", "\n">>, <<VT, "\f", NBSP, NEL>> }
\* whitespace between two tokens
Pads1 == { <<" ">>, <<" ", "\t", "\n">>, <<FS, GS, RS, US, OGHAM>> }

\* toks[1] gaps[1] toks[2] gaps[2] ... toks[n]
RECURSIVE Interleave(_, _)
Interleave(toks, gaps) ==
    IF toks = <<>> THEN <<>>
    ELSE IF Len(toks) = 1 THEN toks[1]
    ELSE toks[1] \o gaps[1] \o Interleave(Tail(toks), Tail(gaps))

\* a name written from its tokens, with the whitespace that was put around them
TokInputs ==
    UNION { { [toks |-> t, name |-> lead \o Interleave(t, g) \o trail] :
                t \in [1..k -> TokenSet],
                g \in [1..(IF k > 0 THEN k - 1 ELSE 0) -> Pads1],
                lead \in Pads0, trail \in Pads0 } : k \in 0..MaxToks }

RawTexts == { <<>>, <<" ", "\t">>, <<"\n", NBSP>>, <<"X">>,
              <<" ", "X", " ", " ", "Y", "\t">>, <<"\n", "X", "\r", "\n", "Y">>,
              <<"Z", " ">>, <<"Z", "\n">> }
ValueForInputs == [1..3 -> RawTexts \cup {Raise}]

InitTok ==
    /\ JobInit /\ CallReset /\ ThreadsIdle
    /\ fn = "tokens" /\ arg \in TokInputs /\ out = NotCalled

TokensCall ==
    /\ fn = "tokens" /\ ~out.done
    /\ out' = [done |-> TRUE, val |-> _tokens(arg.name)]
    /\ UNCHANGED <<jobvars, callvars, fn, arg, thrvars>>

SpecTok == InitTok /\ [][TokensCall]_vars

InitVal ==
    /\ JobInit /\ CallReset /\ ThreadsIdle
    /\ fn = "value_for" /\ arg \in ValueForInputs /\ out = NotCalled

ValueForCall ==
    /\ fn = "value_for" /\ ~out.done
    /\ out' = [done |-> TRUE, val |-> _value_for(arg)]
    /\ UNCHANGED <<jobvars, callvars, fn, arg, thrvars>>

SpecVal == InitVal /\ [][ValueForCall]_vars

\* the (first, last) pairs verify_ut passes on
NamePairs == { _tokens(nm) : nm \in { x \in Names : ~_tokens(x).raised } }

FillInputs == { [form |-> f, first |-> np.first, last |-> np.last] :
                    f \in Forms, np \in NamePairs }

InitFill ==
    /\ JobInit /\ CallReset /\ ThreadsIdle
    /\ fn = "fill_inputs" /\ arg \in FillInputs /\ out = NotCalled

FillCall ==
    /\ fn = "fill_inputs" /\ ~out.done
    /\ out' = [done |-> TRUE, val |-> _fill_inputs(arg.form, arg.first, arg.last)]
    /\ UNCHANGED <<jobvars, callvars, fn, arg, thrvars>>

SpecFill == InitFill /\ [][FillCall]_vars

\* one scan on its own: texts with both tokens, the last only, the first
\* only, neither, and nothing
ScanTexts == CandTexts \cup { <<"a", "\t", "C">>, <<"c">> }
ScanReads == SeqsUpTo(ScanTexts \cup {Raise}, MaxScan)
ScanArgs == { [cands |-> c, first |-> np.first, last |-> np.last] :
                 c \in ScanReads, np \in NamePairs }

InitScan ==
    /\ JobInit /\ CallReset /\ ThreadsIdle
    /\ fn = "scan" /\ arg \in ScanArgs /\ out = NotCalled

ScanCall ==
    /\ fn = "scan" /\ ~out.done
    /\ out' = [done |-> TRUE, val |-> ScanResult(arg.cands, arg.first, arg.last)]
    /\ UNCHANGED <<jobvars, callvars, fn, arg, thrvars>>

SpecScan == InitScan /\ [][ScanCall]_vars

\* the frame locator on its own
SignalOutcomes == {"yes", "no", "raise"}
FrameKinds == [tab : SignalOutcomes, inp : SignalOutcomes]
FrameLists == UNION { [1..k -> FrameKinds] : k \in 1..MaxFrames }

InitFrame ==
    /\ JobInit /\ CallReset /\ ThreadsIdle
    /\ fn = "find_search_frame" /\ arg \in FrameLists /\ out = NotCalled

FindFrameCall ==
    /\ fn = "find_search_frame" /\ ~out.done
    /\ out' = [done |-> TRUE, val |-> _find_search_frame(arg)]
    /\ UNCHANGED <<jobvars, callvars, fn, arg, thrvars>>

SpecFrame == InitFrame /\ [][FindFrameCall]_vars

----------------------------------------------------------------------------
(* Properties *)

Returned == outcome = "returned"

\* verify_ut has left its try block, by a return statement or through an
\* except handler: results is the list it is returning, its locals are as the
\* try block left them, the finally block and the end of the with block are
\* still to run
AtReturn == pc = "finally"

HasClose(what) == \E i \in 1..Len(closed) : closed[i].res = what

\* C1: verify(fullName) never raises for any input string, the empty and the
\* whitespace-only string included: every call ends by returning a list of
\* 0 or 1 record.
C1_VerifyNeverRaises ==
    /\ outcome # "raised"
    /\ Returned => Len(results) <= 1

\* C2: whenever verify() ends, by returning or by raising, every browser and
\* browser context the call acquired has had its close attempted before the
\* call is left, and a failed close of the context does not prevent the close
\* of the browser.
C2_SessionReleased ==
    outcome \in {"returned", "raised"} =>
        /\ ctx => HasClose("ctx")
        /\ browser => HasClose("browser")

\* a call that timed out after the session was open, whose context close
\* failed and whose browser close was still attempted
C2_Witness ==
    /\ Returned /\ cause = "timeout" /\ browser /\ ctx
    /\ closed = << [res |-> "ctx", ok |-> FALSE], [res |-> "browser", ok |-> TRUE] >>

AllEmpty(f) == f.lic = <<>> /\ f.status = <<>> /\ f.issue = <<>> /\ f.expiry = <<>>

\* C3: when license number, status, issue date and expiry date are all empty
\* for a matched and opened candidate, verify() returns zero records.
C3_EmptyDetailDiscarded ==
    (AtReturn /\ opened # None /\ AllEmpty(fields)) => results = <<>>

\* C4: verify() is called once for each name of the list, in order, whatever
\* the outcome of earlier names: when a run has ended, the names verify() was
\* called with are the list it was given.
C4_BatchNeverAborted ==
    (pc = "idle" /\ response.status # 0) => called = providers

\* C5: verify() makes at most three scan attempts, the waits after the scans
\* are one fixed delay, and when no attempt finds a candidate matching the
\* name tokens the polling stops after the third and the call comes to
\* return [] with an empty list (or to the return [] of an except handler,
\* when a scan or a wait raised), never raising out of the loop; the list a
\* call returns after exhausted polling is empty.  (A call during which the
\* stop of Playwright itself fails, after the return statement, is left
\* aside.)
C5_PollingBounded ==
    /\ attempt <= 3
    /\ \A i \in 2..Len(waits) : waits[i] = waits[2]
    /\ (pc = "scan" /\ attempt > 0) => Len(waits) = attempt + 1
    /\ (attempt = 3 /\ opened = None) =>
          AtReturn /\ cause \in {"nomatch"} \cup FaultKinds
    /\ (AtReturn /\ opened = None) => results = <<>>
    /\ cause = "nomatch" => results = <<>>

\* three scans without a match, a wait after each, and the call is at return []
C5_Witness ==
    /\ AtReturn /\ cause = "nomatch" /\ attempt = 3 /\ opened = None
    /\ Len(waits) = 4 /\ results = <<>>

SameKey(a, b) == a.state = b.state /\ a.license_number = b.license_number

\* C6: with job runs served one after the other, the store never holds two
\* rows with one (state, licenseNumber), and once the runner has processed a
\* record the one row of its key carries that record's status, also when the
\* row existed with another status.
C6_NaturalKeyUpsert ==
    /\ \A r1, r2 \in store : SameKey(r1, r2) => r1 = r2
    /\ (pc = "returned" /\ ri > 1) =>
          /\ Cardinality(Matching(store, results[ri - 1])) = 1
          /\ \A r \in Matching(store, results[ri - 1]) : r.status = results[ri - 1].status

\* the second of two records with one key and different statuses was processed
C6_Witness ==
    /\ pc = "returned" /\ ri = 2
    /\ \E e \in existing :
          /\ e.status # results[1].status
          /\ e.status # None /\ results[1].status # None
    /\ Cardinality(Matching(store, results[1])) = 1
    /\ \A r \in Matching(store, results[1]) : r.status = results[1].status

\* C7: for two or more whitespace-separated tokens, whatever whitespace is
\* between and around them, firstGuess is all tokens but the last joined by
\* single spaces and lastGuess is the final token; for one token firstGuess is
\* empty and lastGuess is the token.
C7_Tokenizer ==
    (fn = "tokens" /\ out.done /\ Len(arg.toks) >= 1) =>
        LET n == Len(arg.toks)
        IN  /\ ~out.val.raised
            /\ out.val.last = arg.toks[n]
            /\ out.val.first = Join(SubSeq(arg.toks, 1, n - 1), <<" ">>)
            /\ n = 1 => out.val.first = <<>>

\* three tokens written with more whitespace than single spaces
C7_Witness ==
    /\ fn = "tokens" /\ out.done /\ Len(arg.toks) = 3
    /\ Len(arg.name) > Len(Join(arg.toks, <<" ">>)) + 2
    /\ out.val.first = arg.toks[1] \o <<" ">> \o arg.toks[2]

\* C8: for the empty string and for any whitespace-only string the tokenizer
\* yields firstGuess = "" and lastGuess = "" (a value, not a failure).
C8_TokenizerEmpty ==
    (fn = "tokens" /\ out.done /\ Len(arg.toks) = 0) =>
        /\ ~out.val.raised
        /\ out.val.first = <<>> /\ out.val.last = <<>>

DigitChar(n) == CHOOSE c \in Digit : DigitVal(c) = n

\* the ways strptime's %m and %d accept the number n
Written(n, isDay) ==
    IF n >= 10 THEN { <<DigitChar(n \div 10), DigitChar(n % 10)>> }
    ELSE { <<DigitChar(n)>>, <<"0", DigitChar(n)>> }
         \cup (IF isDay THEN { <<" ", DigitChar(n)>> } ELSE {})

Year4(y) ==
    << DigitChar(y \div 1000), DigitChar((y \div 100) % 10),
       DigitChar((y \div 10) % 10), DigitChar(y % 10) >>

\* the texts that denote the date d in one of the four formats
Renderings(d) ==
    { IF yf THEN Year4(d[1]) \o <<sep>> \o m \o <<sep>> \o dd
            ELSE m \o <<sep>> \o dd \o <<sep>> \o Year4(d[1]) :
        yf \in BOOLEAN, sep \in {"/", "-"},
        m \in Written(d[2], FALSE), dd \in Written(d[3], TRUE) }

NeverGuessed(text, date) ==
    /\ text = <<>> => date = None
    /\ (\A i \in 1..Len(text) : text[i] \notin Digit) => date = None
    /\ date # None => (ValidDate(date[1], date[2], date[3]) /\ text \in Renderings(date))

\* C9: in every record verify() returns, licenseNumber is never null or empty
\* and is the sentinel "UNKNOWN" exactly when no license number text was
\* extracted; status is absent exactly when no status text was extracted;
\* issueDate and expiryDate are absent whenever their text was empty or not a
\* date, and a date that is present is the one the text denotes.
C9_NoGuessedFields ==
    (AtReturn /\ results # <<>>) =>
        LET rec == results[1]
        IN  /\ rec.license_number # None /\ rec.license_number # <<>>
            /\ rec.license_number = UNKNOWN <=> fields.lic = <<>>
            /\ fields.lic # <<>> => rec.license_number = fields.lic
            /\ rec.status = None <=> fields.status = <<>>
            /\ fields.status # <<>> => rec.status = fields.status
            /\ NeverGuessed(fields.issue, rec.issue_date)
            /\ NeverGuessed(fields.expiry, rec.expiry_date)

\* C9, amended: in every record verify() returns, licenseNumber is never null
\* or empty: it is the extracted license number text when one was extracted
\* and the sentinel "UNKNOWN" when none was, so that it reads "UNKNOWN"
\* exactly when no text was extracted or the extracted text is itself
\* "UNKNOWN"; status is absent exactly when no status text was extracted and
\* is the extracted text otherwise; issueDate and expiryDate are absent
\* whenever their text was empty or not a date, and a date that is present is
\* the one the text denotes.
C9_SentinelOrText ==
    (AtReturn /\ results # <<>>) =>
        LET rec == results[1]
        IN  /\ rec.license_number # None /\ rec.license_number # <<>>
            /\ fields.lic = <<>> => rec.license_number = UNKNOWN
            /\ fields.lic # <<>> => rec.license_number = fields.lic
            /\ rec.license_number = UNKNOWN <=> fields.lic \in {<<>>, UNKNOWN}
            /\ rec.status = None <=> fields.status = <<>>
            /\ fields.status # <<>> => rec.status = fields.status
            /\ NeverGuessed(fields.issue, rec.issue_date)
            /\ NeverGuessed(fields.expiry, rec.expiry_date)

\* a record whose license number is the extracted text "UNKNOWN", with a
\* status, an issue text that is no calendar date, and an expiry date
C9_Witness ==
    /\ AtReturn /\ results # <<>>
    /\ results[1].license_number = UNKNOWN /\ fields.lic = UNKNOWN
    /\ results[1].status = Active
    /\ fields.issue = BadDay /\ results[1].issue_date = None
    /\ results[1].expiry_date = <<2026, 1, 31>>

Read(i) == IF arg[i] = Raise THEN <<>> ELSE _clean(arg[i])

\* C10: valueFor returns the first non-empty result in the order
\* label-sibling, table-cell, definition-pair, so the label-sibling result wins
\* over a table-cell result; a strategy that fails or yields empty text falls
\* through to the next, and the result is the empty string when all three fail.
C10_StrategyOrder ==
    (fn = "value_for" /\ out.done) =>
        /\ Read(1) # <<>> => out.val = Read(1)
        /\ (Read(1) = <<>> /\ Read(2) # <<>>) => out.val = Read(2)
        /\ (Read(1) = <<>> /\ Read(2) = <<>> /\ Read(3) # <<>>) => out.val = Read(3)
        /\ (Read(1) = <<>> /\ Read(2) = <<>> /\ Read(3) = <<>>) => out.val = <<>>

\* label sibling and table cell both give text, and they differ
C10_Witness ==
    /\ fn = "value_for" /\ out.done
    /\ Read(1) # <<>> /\ Read(2) # <<>> /\ Read(1) # Read(2)
    /\ out.val = Read(1)

\* C11: once a strategy of the form-fill chain has filled a field, no other
\* strategy writes to any input: every fill() of one _fill_inputs call is made
\* by the same strategy (attribute patterns, label for-target, or position).
C11_FillChainStops ==
    (fn = "fill_inputs" /\ out.done) =>
        \A i, j \in 1..Len(out.val.writes) :
            out.val.writes[i].by = out.val.writes[j].by

\* C12: a scan iteration resubmits the form at most once per call, and only
\* in the first iteration, when that iteration found zero candidates and the
\* initial submit_once() had returned False.
C12_ResubmitOnce ==
    [][ (pc = "scan" /\ submits' > submits) =>
            /\ submits = 1 /\ submits' = 2
            /\ attempt = 0
            /\ ~did_submit
            /\ resubmit' = "no_candidates" ]_vars

\* C13: a failed read of one candidate's text during result scanning is
\* absorbed like every other local failure: no call is ended by the except
\* handlers because candidates.nth(i).inner_text() raised.
C13_LocalFailuresAbsorbed ==
    (AtReturn /\ cause \in FaultKinds) => stage # "read"

\* C14: once a candidate has been clicked, the call reads the detail from the
\* new window when one opened and from the current container when none did,
\* and in both cases goes on to extraction and returns its record.  (A call
\* whose browser failed during the click is left aside.)
C14_DetailContainer ==
    (AtReturn /\ opened # None /\ ~(stage = "popup" /\ cause = "error")) =>
        /\ detail \in {"popup", "container"}
        /\ Len(results) = 1

\* C15: the element a scan opens is the first in scan order whose text holds
\* the last-name token and, when the query has a first-name token, that token
\* too (both case-insensitively); an element is opened exactly when such an
\* element exists and every element before it could be read; no element whose
\* text lacks the last-name token is opened.
HasToken(raw, tok) == raw # Raise /\ Contains(LowerText(_clean(raw)), LowerText(tok))

Qualifies(raw, fst, lst) ==
    HasToken(raw, lst) /\ (fst # <<>> => HasToken(raw, fst))

FirstQualifying(c, fst, lst) ==
    { i \in 1..Len(c) : /\ Qualifies(c[i], fst, lst)
                        /\ \A j \in 1..(i - 1) : c[j] # Raise /\ ~Qualifies(c[j], fst, lst) }

C15_FirstMatchOpened ==
    (fn = "scan" /\ out.done) =>
        LET c == arg.cands
            hits == FirstQualifying(c, arg.first, arg.last)
        IN  /\ (out.val.kind = "match") <=> (hits # {})
            /\ out.val.kind = "match" =>
                  /\ out.val.at \in hits
                  /\ out.val.txt = _clean(c[out.val.at])
                  /\ HasToken(c[out.val.at], arg.last)

\* a query with a first name, an element with the last name only ahead of the
\* element with both: the second one is opened
C15_Witness ==
    /\ fn = "scan" /\ out.done
    /\ arg.first # <<>>
    /\ out.val.kind = "match" /\ out.val.at = 2
    /\ HasToken(arg.cands[1], arg.last)

\* C16: the fill signal and the submit signal never gate control flow: after
\* the form-fill step the call always goes on to submit_once(), whatever
\* _fill_inputs returned and whether or not a profession filter was there, and
\* after submit_once() it always goes on to the polling loop, whatever
\* submit_once() returned (only the unguarded wait can end the call there).
C16_SignalsDoNotGate ==
    [][ /\ (pc = "prepare" /\ pc' # pc) => pc' = "submit"
        /\ (pc = "submit" /\ pc' # pc) =>
              /\ submits' = submits + 1
              /\ pc' = "scan" \/ (pc' = "finally" /\ stage' = "wait") ]_vars

\* polling has begun although nothing was filled and no submission was sent
C16_Witness ==
    /\ pc = "scan" /\ attempt = 0
    /\ ~filled /\ ~did_submit
    /\ submits = 1 /\ waits = <<SubmitDelay>>

\* C17: the container _find_search_frame returns is the first frame of
\* page.frames (main frame first) for which the "Name Search" text test or the
\* lastName input test succeeds; a test that raises counts as not satisfied and
\* the search goes on; the page itself is returned when no frame satisfies one.
Signalled(frames) ==
    { i \in 1..Len(frames) : frames[i].tab = "yes" \/ frames[i].inp = "yes" }

C17_FirstSignalledFrame ==
    (fn = "find_search_frame" /\ out.done) =>
        LET sig == Signalled(arg)
        IN  IF sig = {}
            THEN out.val = [kind |-> "page", at |-> 0]
            ELSE /\ out.val.kind = "frame"
                 /\ out.val.at \in sig
                 /\ \A i \in sig : out.val.at <= i

\* the first frame's tests fail or raise, the second frame's text test raises
\* and its input test succeeds: the second frame is returned
C17_Witness ==
    /\ fn = "find_search_frame" /\ out.done
    /\ Len(arg) >= 2
    /\ arg[1].tab = "raise" /\ arg[1].inp = "no"
    /\ arg[2].tab = "raise" /\ arg[2].inp = "yes"
    /\ out.val = [kind |-> "frame", at |-> 2]

\* C18: each record is committed in its own write before the next record or
\* name is taken up: the table changes only in the step of a request that
\* writes one record and commits; that step of the run leaves a row with the
\* record's key (holding the record, when no other request has changed the
\* row since the select) and adds one to the processed count, and the count
\* changes in no other way during a run; no step removes a row, and a step
\* that ends the run with a fault leaves the table as it was, earlier commits
\* included.
Holds(row, rec) ==
    /\ row.state = rec.state /\ row.license_number = rec.license_number
    /\ row.full_name = rec.full_name /\ row.status = rec.status
    /\ row.issue_date = rec.issue_date /\ row.expiry_date = rec.expiry_date
    /\ row.source_uri = rec.source_uri

C18_PerRecordDurability ==
    [][ /\ store' # store =>
              \/ pc = "write" /\ pc' = "returned" /\ processed' = processed + 1
              \/ \E t \in Threads : tpc[t] = "write" /\ tpc'[t] = "idle"
        /\ processed' # processed =>
              \/ pc = "idle" /\ processed' = 0
              \/ /\ pc = "write" /\ ri <= Len(results) /\ ri' = ri + 1
                 /\ processed' = processed + 1
                 /\ \E row \in store' : SameKey(row, results[ri])
                 /\ existing \subseteq store => \E row \in store' : Holds(row, results[ri])
        /\ \A row \in store : \E kept \in store' :
              kept.id = row.id /\ SameKey(kept, row)
        /\ (response'.status = 500 /\ response.status # 500) => store' = store ]_vars

\* a run whose first name gave a record, committed and counted, and whose
\* second name raised: the run answered 500 and the row is in the table
C18_Witness ==
    /\ pc = "idle" /\ response.status = 500 /\ outcome = "raised"
    /\ Len(called) = 2 /\ processed = 1
    /\ \E row \in store : row.full_name = called[1]

\* C19: with two POST /run requests interleaving their select and their
\* insert for the same (state, licenseNumber), the table still never holds two
\* rows with that key, and no later upsert fails because its select matches
\* more than one row.
C19_ConcurrentUpsert ==
    /\ \A a, b \in store : SameKey(a, b) => a = b
    /\ \A t \in Threads : tpc[t] # "failed"

\* C20: after the runner has upserted a record onto a row that existed, the
\* row carries every field of that record: name, status, dates, source and the
\* verification time of the record just processed.
C20_UpsertRefreshesAll ==
    (pc = "returned" /\ ri > 1 /\ existing # {}) =>
        \A row \in Matching(store, results[ri - 1]) :
            /\ Holds(row, results[ri - 1])
            /\ row.last_verified_at = results[ri - 1].last_verified_at

====
